---- MODULE Spec2Model ----
(***************************************************************************)
(* Model of job_launcher.c: the launcher session (launcher_session_t), the *)
(* main path (setup, dispatch, event loop, cleanup), the receive and       *)
(* shutdown callbacks and the SIGINT handler.                              *)
(*                                                                         *)
(* The main path is modelled statement by statement (pc), because the      *)
(* SIGINT handler may preempt it between any two statements once it is     *)
(* installed.  The handler itself runs on the main thread with SIGINT      *)
(* blocked (sigaction without SA_NODEFER), so while it runs (hpc # "idle") *)
(* the main path does not advance.                                         *)
(***************************************************************************)
EXTENDS Integers, Sequences, FiniteSets, TLC

\* Bounds of the model.
MaxHosts == 2
MaxReports == 2
MaxInterrupts == 1

VARIABLES
    host_count,   \* session->host_count, fixed by parse_hostfile
    host_info,    \* session->host_info[h]: "alloc" or "null"
    skt_conns,    \* session->skt_conns[h]
    nr_active,    \* session->nr_active
    nr_ackd,      \* session->nr_ackd
    valid,        \* session->valid
    pc,           \* position of the main path
    i,            \* loop index of launcher_session_setup / launcher_session_start
    j,            \* which of the three dispatch sends of host i comes next
    ci,           \* loop index of launcher_session_cleanup on the main path
    cret,         \* where launcher_session_cleanup returns to on the main path
    ret,          \* local ret of launcher_session_start
    rc,           \* value returned by launcher_session_setup
    installed,    \* whether sigaction installed launcher_signal_handler
    hpc,          \* position of the SIGINT handler ("idle" when not running)
    hi,           \* loop index of launcher_signal_handler
    frees,        \* per host entry, the number of free() calls on its block
    shutdowns,    \* number of comlink_client_shutdown() calls
    closed,       \* handles closed by comlink_client_close
    sent,         \* every comlink_sendto_server call, in order
    startFail,    \* hosts whose "start" send returned -1
    connOk,       \* hosts for which comlink_client_setup returned a handle
    reports,      \* number of status reports delivered so far
    interrupts,   \* number of SIGINTs handled so far
    badRead,      \* a host entry was dereferenced after it had been released
    args,         \* the command line: argc and what argv[1..5] hold
    instances,    \* session->instances
    host_file,    \* strlen(session->host_file)
    exe_name      \* strlen(session->exe_name)

vars == <<host_count, host_info, skt_conns, nr_active, nr_ackd, valid, pc, i, j,
          ci, cret, ret, rc, installed, hpc, hi, frees, shutdowns, closed, sent,
          startFail, connOk, reports, interrupts, badRead,
          args, instances, host_file, exe_name>>

\* What parse_cmdline reads and writes.
config == <<args, instances, host_file, exe_name>>

session == <<host_count, host_info, skt_conns, nr_active, nr_ackd, valid>>

Hosts == 0 .. (host_count - 1)

\* Positions at which the process is gone.
Terminal == {"done", "exit2", "killed", "crashed"}

\* Program constants.
MAX_CMD_ARGS == 6
MAX_INSTANCES == 100
SizeofInt == 4
SizeofPtr == 8

----------------------------------------------------------------------------
\* Pieces of the code that the actions below are built from.

\* parse_cmdline, lines 99-102: the test that rejects the options, on the
\* instance count and the lengths of the host file and executable paths.
ConfigRejected(n, hf, exe) == (n < 0 /\ n > MAX_INSTANCES) \/ hf = 0 \/ exe = 0

\* launcher_session_cleanup, line 59: the loop ends.
CleanupLoopDoneEarly(k, n) == k >= n - 1
CleanupLoopDone(k, n) == k >= n

\* launcher_shutdown_callback, lines 190-195: nr_active after a peer
\* disconnect (the callback does not touch it).
ActiveDropsOnDisconnect(active) == active - 1
ActiveAfterDisconnect(active) == active

\* launcher_session_cleanup, line 55: the early return.
CleanupNeverSkips(v) == FALSE
CleanupSkips(v) == v = 0

\* launcher_session_cleanup, line 58: the value written to session->valid.
ClearedFlagToggled(v) == 1 - v
ClearedFlag(v) == 0

\* launcher_rxmsg_callback, line 182: the completion test.
AckCompleteEarly(active, ackd) == active <= ackd + 1
AckComplete(active, ackd) == active <= ackd

\* launcher_session_setup, lines 230-234: nr_active after one connect attempt.
ActiveCountsFailures(active, fd) == active + 1
ActiveAfterConnect(active, fd) == IF fd = -1 THEN active ELSE active + 1

\* launcher_session_start, lines 279-287: the k-th send of one iteration.
DispatchKindSwapped(k) ==
    CASE k = 1 -> [type |-> "EXEC_FILENAME", cmd |-> "none"]
      [] k = 2 -> [type |-> "PROC_INSTANCES", cmd |-> "none"]
      [] OTHER -> [type |-> "CTRL_MESSAGE", cmd |-> "start"]
DispatchKind(k) ==
    CASE k = 1 -> [type |-> "PROC_INSTANCES", cmd |-> "none"]
      [] k = 2 -> [type |-> "EXEC_FILENAME", cmd |-> "none"]
      [] OTHER -> [type |-> "CTRL_MESSAGE", cmd |-> "start"]

\* launcher_session_start, lines 281, 285, 287: the descriptor argument of the
\* sends of host h is the loop index.
DispatchFd(h) == h

\* launcher_signal_handler, line 308: the descriptor argument is the loop index.
StopFd(h) == h

\* The handle comlink_client_setup returns for the connection of host h: an
\* opaque positive value, distinct per connection and never a host index.
ComlinkHandle(h) == host_count + h

\* The len given to fill_header and to comlink_sendto_server: line 279
\* (sizeof(session->instances)), line 283 (strlen(session->exe_name)) and
\* line 259 (sizeof(msg), msg being a char *).
SentLen(kind) ==
    CASE kind.type = "PROC_INSTANCES" -> SizeofInt
      [] kind.type = "EXEC_FILENAME" -> exe_name
      [] OTHER -> SizeofPtr

\* One comlink_sendto_server call; len is both the header's length field and
\* the number of payload bytes handed to the transport.
Msg(h, fd, kind) ==
    [host |-> h, fd |-> fd, type |-> kind.type, cmd |-> kind.cmd, len |-> SentLen(kind)]

\* The command lines tried: argc, whether argv[1] is "-np" and the number after
\* it, whether argv[3] is "-hostfile" and the length of the path after it, and
\* the length of the executable path.
ArgsDomain ==
    [argc : {MAX_CMD_ARGS - 1, MAX_CMD_ARGS},
     is_np : BOOLEAN, np : {-1, 0, 1, MAX_INSTANCES, MAX_INSTANCES + 1},
     is_hostfile : BOOLEAN, hostfile : {0, 1},
     exe : {0, 1}]

\* launcher -np 1 -hostfile h e
PlainArgs ==
    [argc |-> MAX_CMD_ARGS, is_np |-> TRUE, np |-> 1,
     is_hostfile |-> TRUE, hostfile |-> 1, exe |-> 1]

----------------------------------------------------------------------------
\* State after parse_cmdline and parse_hostfile: host_count >= 1 entries are
\* allocated; the session is a zero-initialised static.
Init ==
    /\ host_count \in 1 .. MaxHosts
    /\ host_info = [h \in 0 .. (host_count - 1) |-> "alloc"]
    /\ skt_conns = [h \in 0 .. (host_count - 1) |-> 0]
    /\ nr_active = 0
    /\ nr_ackd = 0
    /\ valid = 0
    /\ pc = "setup_init"
    /\ i = 0
    /\ j = 1
    /\ ci = 0
    /\ cret = "done"
    /\ ret = 0
    /\ rc = 0
    /\ installed = FALSE
    /\ hpc = "idle"
    /\ hi = 0
    /\ frees = [h \in 0 .. (host_count - 1) |-> 0]
    /\ shutdowns = 0
    /\ closed = {}
    /\ sent = <<>>
    /\ startFail = {}
    /\ connOk = {}
    /\ reports = 0
    /\ interrupts = 0
    /\ badRead = FALSE
    /\ args = PlainArgs
    /\ instances = args.np
    /\ host_file = args.hostfile
    /\ exe_name = args.exe

\* State at process start, for any command line of ArgsDomain: the session is a
\* zero-initialised static and no host entry exists.
InitArgs ==
    /\ args \in ArgsDomain
    /\ instances = 0
    /\ host_file = 0
    /\ exe_name = 0
    /\ host_count = 0
    /\ host_info = << >>
    /\ skt_conns = << >>
    /\ frees = << >>
    /\ nr_active = 0
    /\ nr_ackd = 0
    /\ valid = 0
    /\ pc = "parse"
    /\ i = 0
    /\ j = 1
    /\ ci = 0
    /\ cret = "done"
    /\ ret = 0
    /\ rc = 0
    /\ installed = FALSE
    /\ hpc = "idle"
    /\ hi = 0
    /\ shutdowns = 0
    /\ closed = {}
    /\ sent = <<>>
    /\ startFail = {}
    /\ connOk = {}
    /\ reports = 0
    /\ interrupts = 0
    /\ badRead = FALSE

----------------------------------------------------------------------------
\* main up to launcher_session_setup

\* parse_cmdline, lines 84-109, and main, lines 322-325.
ParseCmdline ==
    /\ pc = "parse" /\ hpc = "idle"
    /\ IF args.argc < MAX_CMD_ARGS
       THEN /\ pc' = "exit2"
            /\ UNCHANGED <<instances, host_file, exe_name>>
       ELSE LET n == IF args.is_np THEN args.np ELSE instances
                hf == IF args.is_hostfile THEN args.hostfile ELSE host_file
            IN /\ instances' = n
               /\ host_file' = hf
               /\ exe_name' = args.exe
               /\ pc' = IF ConfigRejected(n, hf, args.exe) THEN "exit2" ELSE "hostfile"
    /\ UNCHANGED <<host_count, host_info, skt_conns, nr_active, nr_ackd, valid, i, j,
                   ci, cret, ret, rc, installed, hpc, hi, frees, shutdowns, closed,
                   sent, startFail, connOk, reports, interrupts, badRead, args>>

\* parse_hostfile, lines 132-167, and main, lines 328-331: the file cannot be
\* opened (exit(2)), or it yields n allocated host entries.
ParseHostfile ==
    /\ pc = "hostfile" /\ hpc = "idle"
    /\ \E readable \in BOOLEAN, n \in 0 .. MaxHosts :
         IF ~readable
         THEN /\ pc' = "exit2"
              /\ UNCHANGED <<host_count, host_info, skt_conns, frees>>
         ELSE /\ host_count' = n
              /\ host_info' = [h \in 0 .. (n - 1) |-> "alloc"]
              /\ skt_conns' = [h \in 0 .. (n - 1) |-> 0]
              /\ frees' = [h \in 0 .. (n - 1) |-> 0]
              /\ pc' = IF n <= 0 THEN "exit2" ELSE "setup_init"
    /\ UNCHANGED <<nr_active, nr_ackd, valid, i, j, ci, cret, ret, rc, installed,
                   hpc, hi, shutdowns, closed, sent, startFail, connOk, reports,
                   interrupts, badRead, config>>

----------------------------------------------------------------------------
\* launcher_session_setup

\* lines 209-211
SetupInit ==
    /\ pc = "setup_init" /\ hpc = "idle"
    /\ nr_ackd' = 0
    /\ nr_active' = 0
    /\ valid' = 1
    /\ i' = 0
    /\ pc' = "setup_loop"
    /\ UNCHANGED config
    /\ UNCHANGED <<host_count, host_info, skt_conns, j, ci, cret, ret, rc,
                   installed, hpc, hi, frees, shutdowns, closed, sent, startFail,
                   connOk, reports, interrupts, badRead>>

\* lines 221-235, one iteration: the address lookup fails (continue), the
\* connect fails (fd = -1) or it succeeds.
SetupHost ==
    /\ pc = "setup_loop" /\ hpc = "idle"
    /\ i < host_count
    /\ \E outcome \in {"nolookup", "noconnect", "ok"} :
         LET fd == IF outcome = "ok" THEN ComlinkHandle(i) ELSE -1 IN
         IF outcome = "nolookup"
         THEN UNCHANGED <<skt_conns, nr_active, connOk>>
         ELSE /\ skt_conns' = [skt_conns EXCEPT ![i] = fd]
              /\ nr_active' = ActiveAfterConnect(nr_active, fd)
              /\ connOk' = IF fd = -1 THEN connOk ELSE connOk \cup {i}
    /\ i' = i + 1
    /\ UNCHANGED config
    /\ UNCHANGED <<host_count, host_info, nr_ackd, valid, pc, j, ci, cret, ret, rc,
                   installed, hpc, hi, frees, shutdowns, closed, sent, startFail,
                   reports, interrupts, badRead>>

\* line 237
SetupReturn ==
    /\ pc = "setup_loop" /\ hpc = "idle"
    /\ i >= host_count
    /\ rc' = 0
    /\ pc' = "setup_ret"
    /\ UNCHANGED config
    /\ UNCHANGED <<host_count, host_info, skt_conns, nr_active, nr_ackd, valid, i, j,
                   ci, cret, ret, installed, hpc, hi, frees, shutdowns, closed, sent,
                   startFail, connOk, reports, interrupts, badRead>>

\* main, lines 334-335
MainAfterSetup ==
    /\ pc = "setup_ret" /\ hpc = "idle"
    /\ pc' = IF rc # 0 THEN "exit2" ELSE "sigaction"
    /\ UNCHANGED config
    /\ UNCHANGED <<host_count, host_info, skt_conns, nr_active, nr_ackd, valid, i, j,
                   ci, cret, ret, rc, installed, hpc, hi, frees, shutdowns, closed,
                   sent, startFail, connOk, reports, interrupts, badRead>>

\* main, lines 338-343: sigaction may fail, and then main only warns.
MainSigaction ==
    /\ pc = "sigaction" /\ hpc = "idle"
    /\ \E ok \in BOOLEAN : installed' = ok
    /\ i' = 0
    /\ j' = 1
    /\ pc' = "st_print"
    /\ UNCHANGED config
    /\ UNCHANGED <<host_count, host_info, skt_conns, nr_active, nr_ackd, valid,
                   ci, cret, ret, rc, hpc, hi, frees, shutdowns, closed, sent,
                   startFail, connOk, reports, interrupts, badRead>>

----------------------------------------------------------------------------
\* launcher_session_start

\* lines 276-277: reads session->host_info[i]->hostname.  If the entry has been
\* released the read is undefined: the process may crash or go on.
StartPrint ==
    /\ pc = "st_print" /\ hpc = "idle"
    /\ IF host_info[i] = "null"
       THEN /\ badRead' = TRUE
            /\ \E crash \in BOOLEAN : pc' = IF crash THEN "crashed" ELSE "st_send"
       ELSE /\ badRead' = badRead
            /\ pc' = "st_send"
    /\ j' = 1
    /\ UNCHANGED config
    /\ UNCHANGED <<host_count, host_info, skt_conns, nr_active, nr_ackd, valid, i,
                   ci, cret, ret, rc, installed, hpc, hi, frees, shutdowns, closed,
                   sent, startFail, connOk, reports, interrupts>>

\* lines 279-289: the j-th send of host i; each send returns 0 or -1.  The
\* result of the first two goes to ret; a failed "start" is only reported.
StartSend ==
    /\ pc = "st_send" /\ hpc = "idle"
    /\ sent' = Append(sent, Msg(i, DispatchFd(i), DispatchKind(j)))
    /\ \E res \in {0, -1} :
         IF j < 3
         THEN /\ ret' = res
              /\ startFail' = startFail
         ELSE /\ ret' = ret
              /\ startFail' = IF res = -1 THEN startFail \cup {i} ELSE startFail
    /\ IF j < 3
       THEN /\ j' = j + 1
            /\ UNCHANGED <<i, pc>>
       ELSE /\ j' = 1
            /\ i' = i + 1
            /\ pc' = IF i + 1 < host_count THEN "st_print" ELSE "client_start"
    /\ UNCHANGED config
    /\ UNCHANGED <<host_count, host_info, skt_conns, nr_active, nr_ackd, valid,
                   ci, cret, rc, installed, hpc, hi, frees, shutdowns, closed,
                   connOk, reports, interrupts, badRead>>

\* line 293: comlink_client_start() enters the event loop.
ClientStart ==
    /\ pc = "client_start" /\ hpc = "idle"
    /\ pc' = "loop"
    /\ UNCHANGED config
    /\ UNCHANGED <<host_count, host_info, skt_conns, nr_active, nr_ackd, valid, i, j,
                   ci, cret, ret, rc, installed, hpc, hi, frees, shutdowns, closed,
                   sent, startFail, connOk, reports, interrupts, badRead>>

----------------------------------------------------------------------------
\* The event loop of the transport and the callbacks it delivers.

\* The loop delivers a status report: launcher_rxmsg_callback is entered,
\* lines 174-179.
RxMsg ==
    /\ pc = "loop" /\ hpc = "idle"
    /\ reports < MaxReports
    /\ reports' = reports + 1
    /\ pc' = "rx_inc"
    /\ UNCHANGED config
    /\ UNCHANGED <<host_count, host_info, skt_conns, nr_active, nr_ackd, valid, i, j,
                   ci, cret, ret, rc, installed, hpc, hi, frees, shutdowns, closed,
                   sent, startFail, connOk, interrupts, badRead>>

\* line 181
RxInc ==
    /\ pc = "rx_inc" /\ hpc = "idle"
    /\ nr_ackd' = nr_ackd + 1
    /\ pc' = "rx_check"
    /\ UNCHANGED config
    /\ UNCHANGED <<host_count, host_info, skt_conns, nr_active, valid, i, j,
                   ci, cret, ret, rc, installed, hpc, hi, frees, shutdowns, closed,
                   sent, startFail, connOk, reports, interrupts, badRead>>

\* lines 182-183
RxCheck ==
    /\ pc = "rx_check" /\ hpc = "idle"
    /\ pc' = IF AckComplete(nr_active, nr_ackd) THEN "rx_cleanup" ELSE "loop"
    /\ UNCHANGED config
    /\ UNCHANGED <<host_count, host_info, skt_conns, nr_active, nr_ackd, valid, i, j,
                   ci, cret, ret, rc, installed, hpc, hi, frees, shutdowns, closed,
                   sent, startFail, connOk, reports, interrupts, badRead>>

\* line 184: the callback calls launcher_session_cleanup.
RxCallCleanup ==
    /\ pc = "rx_cleanup" /\ hpc = "idle"
    /\ cret' = "loop"
    /\ pc' = "c_check"
    /\ UNCHANGED config
    /\ UNCHANGED <<host_count, host_info, skt_conns, nr_active, nr_ackd, valid, i, j,
                   ci, ret, rc, installed, hpc, hi, frees, shutdowns, closed,
                   sent, startFail, connOk, reports, interrupts, badRead>>

\* launcher_shutdown_callback, lines 190-195, for a peer that disconnects.
ShutdownCallback ==
    /\ pc = "loop" /\ hpc = "idle"
    /\ \E h \in connOk :
         /\ skt_conns[h] \notin closed
         /\ closed' = IF skt_conns[h] > 0 THEN closed \cup {skt_conns[h]} ELSE closed
    /\ nr_active' = ActiveAfterDisconnect(nr_active)
    /\ UNCHANGED config
    /\ UNCHANGED <<host_count, host_info, skt_conns, nr_ackd, valid, pc, i,
                   j, ci, cret, ret, rc, installed, hpc, hi, frees, shutdowns, sent,
                   startFail, connOk, reports, interrupts, badRead>>

\* comlink_client_start() returns once the transport has been shut down;
\* main, line 349, then calls launcher_session_cleanup.
LoopExit ==
    /\ pc = "loop" /\ hpc = "idle"
    /\ shutdowns > 0
    /\ pc' = "m_cleanup"
    /\ UNCHANGED config
    /\ UNCHANGED <<host_count, host_info, skt_conns, nr_active, nr_ackd, valid, i, j,
                   ci, cret, ret, rc, installed, hpc, hi, frees, shutdowns, closed,
                   sent, startFail, connOk, reports, interrupts, badRead>>

\* main, line 349
MainCallCleanup ==
    /\ pc = "m_cleanup" /\ hpc = "idle"
    /\ cret' = "done"
    /\ pc' = "c_check"
    /\ UNCHANGED config
    /\ UNCHANGED <<host_count, host_info, skt_conns, nr_active, nr_ackd, valid, i, j,
                   ci, ret, rc, installed, hpc, hi, frees, shutdowns, closed,
                   sent, startFail, connOk, reports, interrupts, badRead>>

----------------------------------------------------------------------------
\* launcher_session_cleanup on the main path, statement by statement.

\* lines 55-56
CleanupCheck ==
    /\ pc = "c_check" /\ hpc = "idle"
    /\ pc' = IF CleanupSkips(valid) THEN cret ELSE "c_clear"
    /\ UNCHANGED config
    /\ UNCHANGED <<host_count, host_info, skt_conns, nr_active, nr_ackd, valid, i, j,
                   ci, cret, ret, rc, installed, hpc, hi, frees, shutdowns, closed,
                   sent, startFail, connOk, reports, interrupts, badRead>>

\* line 58
CleanupClear ==
    /\ pc = "c_clear" /\ hpc = "idle"
    /\ valid' = ClearedFlag(valid)
    /\ ci' = 0
    /\ pc' = "c_test"
    /\ UNCHANGED config
    /\ UNCHANGED <<host_count, host_info, skt_conns, nr_active, nr_ackd, i, j,
                   cret, ret, rc, installed, hpc, hi, frees, shutdowns, closed,
                   sent, startFail, connOk, reports, interrupts, badRead>>

\* lines 59-60: the loop test and the test of host_info[i]
CleanupTest ==
    /\ pc = "c_test" /\ hpc = "idle"
    /\ pc' = IF CleanupLoopDone(ci, host_count) THEN "c_shutdown"
             ELSE IF host_info[ci] # "null" THEN "c_free" ELSE "c_null"
    /\ UNCHANGED config
    /\ UNCHANGED <<host_count, host_info, skt_conns, nr_active, nr_ackd, valid, i, j,
                   ci, cret, ret, rc, installed, hpc, hi, frees, shutdowns, closed,
                   sent, startFail, connOk, reports, interrupts, badRead>>

\* line 61: free(session->host_info[i]).  If the handler released the entry
\* after the test of line 60, the argument is either the stale pointer kept in
\* a register (a second free of the block) or the reloaded NULL (no effect).
CleanupFree ==
    /\ pc = "c_free" /\ hpc = "idle"
    /\ IF host_info[ci] # "null"
       THEN frees' = [frees EXCEPT ![ci] = @ + 1]
       ELSE \E stale \in BOOLEAN :
              frees' = IF stale THEN [frees EXCEPT ![ci] = @ + 1] ELSE frees
    /\ pc' = "c_null"
    /\ UNCHANGED config
    /\ UNCHANGED <<host_count, host_info, skt_conns, nr_active, nr_ackd, valid, i, j,
                   ci, cret, ret, rc, installed, hpc, hi, shutdowns, closed,
                   sent, startFail, connOk, reports, interrupts, badRead>>

\* line 62 and the loop increment
CleanupNull ==
    /\ pc = "c_null" /\ hpc = "idle"
    /\ host_info' = [host_info EXCEPT ![ci] = "null"]
    /\ ci' = ci + 1
    /\ pc' = "c_test"
    /\ UNCHANGED config
    /\ UNCHANGED <<host_count, skt_conns, nr_active, nr_ackd, valid, i, j,
                   cret, ret, rc, installed, hpc, hi, frees, shutdowns, closed,
                   sent, startFail, connOk, reports, interrupts, badRead>>

\* line 65 and the return
CleanupShutdown ==
    /\ pc = "c_shutdown" /\ hpc = "idle"
    /\ shutdowns' = shutdowns + 1
    /\ pc' = cret
    /\ UNCHANGED config
    /\ UNCHANGED <<host_count, host_info, skt_conns, nr_active, nr_ackd, valid, i, j,
                   ci, cret, ret, rc, installed, hpc, hi, frees, closed,
                   sent, startFail, connOk, reports, interrupts, badRead>>

----------------------------------------------------------------------------
\* SIGINT

\* SIGINT with launcher_signal_handler installed: the handler starts,
\* lines 304-306.
SigintHandled ==
    /\ installed /\ hpc = "idle"
    /\ pc \notin Terminal
    /\ interrupts < MaxInterrupts
    /\ interrupts' = interrupts + 1
    /\ hi' = 0
    /\ hpc' = "h_stop"
    /\ UNCHANGED config
    /\ UNCHANGED <<host_count, host_info, skt_conns, nr_active, nr_ackd, valid, pc, i,
                   j, ci, cret, ret, rc, installed, frees, shutdowns, closed, sent,
                   startFail, connOk, reports, badRead>>

\* lines 307-308, one iteration: the result of the send is dropped.
HandlerStop ==
    /\ hpc = "h_stop"
    /\ hi < host_count
    /\ \E res \in {0, -1} :
         sent' = Append(sent, Msg(hi, StopFd(hi), [type |-> "CTRL_MESSAGE", cmd |-> "stop"]))
    /\ hi' = hi + 1
    /\ UNCHANGED config
    /\ UNCHANGED <<host_count, host_info, skt_conns, nr_active, nr_ackd, valid, pc, i,
                   j, ci, cret, ret, rc, installed, hpc, frees, shutdowns, closed,
                   startFail, connOk, reports, interrupts, badRead>>

\* line 310: launcher_session_cleanup called by the handler.  Nothing preempts
\* the handler, so the call is one step.
HandlerCleanup ==
    /\ hpc = "h_stop"
    /\ hi >= host_count
    /\ IF CleanupSkips(valid)
       THEN UNCHANGED <<valid, host_info, frees, shutdowns>>
       ELSE /\ valid' = ClearedFlag(valid)
            /\ frees' = [h \in Hosts |->
                           IF host_info[h] # "null" THEN frees[h] + 1 ELSE frees[h]]
            /\ host_info' = [h \in Hosts |-> "null"]
            /\ shutdowns' = shutdowns + 1
    /\ hpc' = "idle"
    /\ UNCHANGED config
    /\ UNCHANGED <<host_count, skt_conns, nr_active, nr_ackd, pc, i, j, ci, cret, ret,
                   rc, installed, hi, closed, sent, startFail, connOk, reports,
                   interrupts, badRead>>

\* SIGINT while no handler is installed: the default action ends the process.
SigintDefault ==
    /\ ~installed /\ hpc = "idle"
    /\ pc \notin Terminal
    /\ pc' = "killed"
    /\ UNCHANGED config
    /\ UNCHANGED <<host_count, host_info, skt_conns, nr_active, nr_ackd, valid, i, j,
                   ci, cret, ret, rc, installed, hpc, hi, frees, shutdowns, closed,
                   sent, startFail, connOk, reports, interrupts, badRead>>

----------------------------------------------------------------------------
Next ==
    \/ SetupInit
    \/ SetupHost
    \/ SetupReturn
    \/ MainAfterSetup
    \/ MainSigaction
    \/ StartPrint
    \/ StartSend
    \/ ClientStart
    \/ RxMsg
    \/ RxInc
    \/ RxCheck
    \/ RxCallCleanup
    \/ ShutdownCallback
    \/ LoopExit
    \/ MainCallCleanup
    \/ CleanupCheck
    \/ CleanupClear
    \/ CleanupTest
    \/ CleanupFree
    \/ CleanupNull
    \/ CleanupShutdown
    \/ SigintHandled
    \/ HandlerStop
    \/ HandlerCleanup
    \/ SigintDefault

Spec == Init /\ [][Next]_vars

\* The whole process, from its command line on.
NextArgs ==
    \/ ParseCmdline
    \/ ParseHostfile
    \/ Next

SpecArgs == InitArgs /\ [][NextArgs]_vars

\* The event loop delivers one status report for each connection counted in
\* nr_active (the callback does not look at the descriptor, so only their
\* number matters): launcher_rxmsg_callback is entered, lines 174-179.
RxCounted ==
    /\ pc = "loop" /\ hpc = "idle"
    /\ reports < nr_active
    /\ reports' = reports + 1
    /\ pc' = "rx_inc"
    /\ UNCHANGED config
    /\ UNCHANGED <<host_count, host_info, skt_conns, nr_active, nr_ackd, valid, i, j,
                   ci, cret, ret, rc, installed, hpc, hi, frees, shutdowns, closed,
                   sent, startFail, connOk, interrupts, badRead>>

\* A run without SIGINT and without peer disconnects, in which the main path
\* keeps running and the event loop delivers the report of every counted host.
NextLive ==
    \/ SetupInit
    \/ SetupHost
    \/ SetupReturn
    \/ MainAfterSetup
    \/ MainSigaction
    \/ StartPrint
    \/ StartSend
    \/ ClientStart
    \/ RxCounted
    \/ RxInc
    \/ RxCheck
    \/ RxCallCleanup
    \/ LoopExit
    \/ MainCallCleanup
    \/ CleanupCheck
    \/ CleanupClear
    \/ CleanupTest
    \/ CleanupFree
    \/ CleanupNull
    \/ CleanupShutdown

SpecLive == Init /\ [][NextLive]_vars /\ WF_vars(NextLive)

----------------------------------------------------------------------------
\* Properties.

\* The dispatch messages of launcher_session_start, in the order sent.
Dispatch == SelectSeq(sent, LAMBDA m : m.cmd # "stop")

\* The main path has finished launcher_session_setup.
SetupDone == pc \notin {"setup_init", "setup_loop", "killed"} \/ (pc = "killed" /\ sent # <<>>)

\* C1: in every interleaving of the SIGINT handler with the main path, each
\* host entry is freed at most once, the transport is shut down at most once,
\* and when main returns every entry has been freed exactly once.
C1_FreedOnceShutdownOnce ==
    /\ \A h \in Hosts : frees[h] <= 1
    /\ shutdowns <= 1
    /\ (pc = "done" => \A h \in Hosts : frees[h] = 1)

\* C2: launcher_session_cleanup called with valid = 0 returns at once: no host
\* entry is freed, the transport is not shut down again and no session field
\* changes; without an interrupt, a run in which the callback cleaned up and
\* main called cleanup again has done the teardown exactly once.
C2_SecondCleanupNoOp ==
    /\ [][ /\ (pc = "c_check" /\ valid = 0 /\ pc' \notin {pc, "killed"})
              => (pc' = cret /\ UNCHANGED <<session, frees, shutdowns>>)
           /\ (hpc = "h_stop" /\ hpc' = "idle" /\ valid = 0)
              => UNCHANGED <<session, frees, shutdowns>> ]_vars
    /\ [](pc = "done" /\ interrupts = 0
            => shutdowns = 1 /\ \A h \in Hosts : frees[h] = 1)

\* C2 witness: no interrupt, the callback's cleanup did the teardown, main's
\* own call followed and main returned.
C2_Witness ==
    /\ pc = "done" /\ interrupts = 0 /\ cret = "done"
    /\ valid = 0 /\ shutdowns = 1 /\ nr_ackd >= 1

C4_AcksWithinActive == valid = 1 => nr_ackd <= nr_active

\* C5: the validity flag is set only by setup's initialisation, which is never
\* re-entered, and is cleared only by cleanup: once cleared by cleanup it is
\* never valid again.
C5_Lifecycle ==
    [][ /\ (valid = 0 /\ valid' = 1) => pc = "setup_init"
        /\ (pc # "setup_init") => (pc' # "setup_init")
        /\ (valid = 1 /\ valid' = 0) => (pc = "c_clear" \/ hpc = "h_stop") ]_vars

\* C5 witness: the session was cleaned up by the handler, and reports,
\* the rest of the main path and main's own cleanup call came afterwards.
C5_Witness ==
    /\ pc = "done" /\ valid = 0 /\ interrupts >= 1 /\ nr_ackd >= 1 /\ shutdowns >= 1

\* C6: setup returns 0 after attempting every host, nr_active <= host_count,
\* and nr_active is the number of hosts whose connect succeeded.
C6_ActiveCountsConnected ==
    /\ nr_active = Cardinality(connOk)
    /\ nr_active <= host_count
    /\ pc # "exit2"
    /\ (pc = "setup_ret" => rc = 0 /\ i = host_count)
    /\ (SetupDone => \A h \in Hosts : h \in connOk <=> skt_conns[h] > 0)

\* C6 witness: two hosts, the first one's connect failed, the second one's
\* succeeded, and setup has returned.
C6_Witness ==
    /\ pc = "setup_ret" /\ host_count = 2
    /\ skt_conns[0] = -1 /\ connOk = {1} /\ nr_active = 1

\* C7: when the event loop is entered, the hosts whose "start" send failed are
\* no longer counted in nr_active.
C7_FailedStartNotCounted ==
    pc = "loop" => nr_active = Cardinality(connOk \ startFail)

\* C8: the k-th dispatch message is message ((k-1) mod 3) of host (k-1) div 3,
\* the three messages being INSTANCE_COUNT, EXECUTABLE_NAME, "start".
C8_DispatchOrder ==
    \A k \in 1 .. Len(Dispatch) :
        /\ Dispatch[k].host = (k - 1) \div 3
        /\ Dispatch[k].type = CASE k % 3 = 1 -> "PROC_INSTANCES"
                                [] k % 3 = 2 -> "EXEC_FILENAME"
                                [] OTHER -> "CTRL_MESSAGE"
        /\ Dispatch[k].cmd = IF k % 3 = 0 THEN "start" ELSE "none"

\* C8 witness: all three messages of two hosts have been sent.
C8_Witness == host_count = 2 /\ Len(Dispatch) = 6 /\ pc = "client_start"

\* C9: every "stop" the handler sends goes to a host with a live connection:
\* one that connected, has not disconnected and has not been torn down.
C9_StopOnlyToLive ==
    \A k \in 1 .. Len(sent) :
        sent[k].cmd = "stop" => (sent[k].host \in connOk /\ sent[k].fd \notin closed)

\* C10: once the session is cleaned up, no step changes nr_ackd or nr_active.
C10_NoCountAfterCleanup ==
    [][ (valid = 0 /\ shutdowns > 0)
          => (nr_ackd' = nr_ackd /\ nr_active' = nr_active) ]_vars

\* C11: when an interrupt has ended the process, the session has been torn
\* down: no interrupt after setup has started ends the run with the session
\* still valid.
C11_InterruptTearsDown == pc = "killed" => valid = 0

\* A command line that the configuration rules reject: too few arguments, no
\* instance count or one outside 1 .. MAX_INSTANCES, no or an empty host file
\* path, an empty executable path.
BadConfig ==
    \/ args.argc < MAX_CMD_ARGS
    \/ ~args.is_np \/ args.np <= 0 \/ args.np > MAX_INSTANCES
    \/ ~args.is_hostfile \/ args.hostfile = 0
    \/ args.exe = 0

\* C12: with a rejected command line the process gets no further than
\* parse_cmdline: it exits with status 2 (or is still parsing, or was killed
\* there) and there has been no connect and no send.
C12_BadConfigRejected ==
    BadConfig => /\ pc \in {"parse", "exit2", "killed"}
                 /\ host_count = 0 /\ sent = <<>> /\ connOk = {} /\ valid = 0

\* strlen of a command keyword.
KeywordLen(cmd) == IF cmd = "start" THEN 5 ELSE 4

\* The number of bytes of a message's payload.
PayloadLen(m) ==
    CASE m.type = "PROC_INSTANCES" -> 4
      [] m.type = "EXEC_FILENAME" -> exe_name
      [] OTHER -> KeywordLen(m.cmd)

\* C13: every message sent carries, as header length and as byte count, the
\* length of its payload.
C13_LengthIsPayload ==
    \A k \in 1 .. Len(sent) : sent[k].len = PayloadLen(sent[k])

\* C14: without an interrupt, with the main path running and every counted
\* host's report delivered, the session is eventually cleaned up and the wait
\* ends (main returns), also when nr_active is 0 after setup.
C14_WaitEnds == <>(pc = "done" /\ valid = 0)

\* C15: every dispatch message is for a host whose connection was established
\* in setup.
C15_DispatchOnlyToConnected ==
    \A k \in 1 .. Len(Dispatch) : Dispatch[k].host \in connOk

\* C16: every control message for host h is sent on the handle recorded in
\* skt_conns[h].
C16_SentOnRecordedHandle ==
    \A k \in 1 .. Len(sent) : sent[k].fd = skt_conns[sent[k].host]

\* C17: no host entry is released while the session is valid, and once the
\* transport has been shut down (the last step of cleanup) the session is
\* cleaned up and every slot has been released and set to NULL.
C17_CleanupPostcondition ==
    /\ \A h \in Hosts : (frees[h] > 0 \/ host_info[h] = "null") => valid = 0
    /\ shutdowns > 0 =>
         (valid = 0 /\ \A h \in Hosts : host_info[h] = "null" /\ frees[h] >= 1)

\* C17 witness: without any interrupt, the cleanup called by the callback on
\* the valid session has run to completion and returned to the event loop.
C17_Witness ==
    /\ pc = "loop" /\ cret = "loop" /\ interrupts = 0
    /\ valid = 0 /\ shutdowns = 1 /\ host_count = 2
    /\ \A h \in Hosts : host_info[h] = "null" /\ frees[h] = 1

\* C18: no released host entry is ever read, and once the session is cleaned
\* up no dispatch message is sent and the event loop is not started.
C18_NoUseAfterCleanup ==
    /\ [](~badRead)
    /\ [][ (valid = 0 /\ shutdowns > 0)
             => /\ Len(Dispatch') = Len(Dispatch)
                /\ ~(pc = "client_start" /\ pc' = "loop") ]_vars

\* C19: a peer disconnect happens in the event loop and changes none of
\* nr_active, nr_ackd, valid, the host entries or the transport; with no report
\* and no interrupt the session stays valid whatever disconnects, and the
\* callback calls cleanup only once the reports number every connection made.
C19_DisconnectOnlyCloses ==
    /\ [][ closed' # closed
             => /\ pc = "loop" /\ pc' = "loop"
                /\ UNCHANGED <<nr_active, nr_ackd, valid, host_info, frees, shutdowns>> ]_vars
    /\ []((pc = "loop" /\ interrupts = 0 /\ reports = 0) => (valid = 1 /\ shutdowns = 0))
    /\ [](pc = "rx_cleanup" => nr_ackd >= Cardinality(connOk))

\* C19 witness: a connected host has disconnected without a report; the
\* session is still valid, waiting, with that host counted.
C19_Witness ==
    /\ pc = "loop" /\ closed # {} /\ reports = 0 /\ interrupts = 0
    /\ valid = 1 /\ nr_active = Cardinality(connOk) /\ nr_active >= 1

====
